---- MODULE Spec2Model ----
(***************************************************************************)
(* The lock / authentication lifecycle sagas: authStateMachine (the        *)
(* parent, forking and cancelling one listener per foreground session) and *)
(* biometricsListener (the child, driving the lock screen and the          *)
(* post-authentication navigation).  Redux actions are delivered           *)
(* synchronously, one at a time, to every saga suspended in a take() whose *)
(* pattern matches; a saga runs from one take() to the next without        *)
(* yielding.  One published signal is therefore one step of the model.     *)
(***************************************************************************)
EXTENDS Integers, Sequences, FiniteSets

\* ---------------------------------------------------------------- bounds
\* Number of signals published on the bus in one behaviour.
MaxBus == 6

\* ------------------------------------------------- signal vocabulary
IN_APP == "AppForegrounded"
OUT_APP == "AppBackgrounded"
LOCKED_APP == "LockEngaged"
BIOMETRICS_SUCCESS == "BiometricSucceeded"
AUTH_SUCCESS == "AuthSucceeded"
AUTH_ERROR == "AuthErrored"

Signals ==
  {IN_APP, OUT_APP, LOCKED_APP, BIOMETRICS_SUCCESS, AUTH_SUCCESS, AUTH_ERROR}

\* ------------------------------------------------- navigation port
LockScreen == "LockScreen"
\* Routes.ONBOARDING.HOME_NAV with screen Routes.WALLET_VIEW
WalletHomeRoute == "HomeNav/WalletView"

\* NavigationService.navigation.navigate(route)
Navigate(route) == [kind |-> "Navigate", route |-> route]
\* NavigationService.navigation.dispatch(StackActions.replace(route))
ReplaceStack(route) == [kind |-> "ReplaceStack", route |-> route]

\* ------------------------------------------------- process states
Idle == "Idle"
Active == "Active"

WaitingForLock == "WaitingForLock"
WaitingForBiometricSuccess == "WaitingForBiometricSuccess"
WaitingForOutcome == "WaitingForOutcome"
NavigatedToWallet == "NavigatedToWallet"
NavigatedToLock == "NavigatedToLock"
Cancelled == "Cancelled"

WaitPoints == {WaitingForLock, WaitingForBiometricSuccess, WaitingForOutcome}
Terminal == {NavigatedToWallet, NavigatedToLock}
NoHandle == 0
\* No bottom sheet is on screen.
NoSheet == "none"

VARIABLES
  parent,   \* state of authStateMachine: Idle or Active
  handle,   \* the task the parent retains: an instance number or NoHandle
  inst,     \* every listener instance forked so far, in fork order
  cmdLog,   \* navigation commands issued so far, in order, each with the
            \* instance that issued it (by) and the bus position (at)
  bus,      \* signals published so far, in order
  sched,    \* TRUE when the last signal was handed to the parent before the
            \* listeners, FALSE when the listeners came first
  sheet     \* the state of one BottomSheetContent component

vars == <<parent, handle, inst, cmdLog, bus, sched, sheet>>

\* The program state as one value, so that a run can be replayed.
State(p, h, i, c, b) ==
  [parent |-> p, handle |-> h, inst |-> i, cmdLog |-> c, bus |-> b]

Current == State(parent, handle, inst, cmdLog, bus)

InitState == State(Idle, NoHandle, <<>>, <<>>, <<>>)

\* ------------------------------------------------- biometricsListener
\* Variant: the outcome take() does not list AUTH_ERROR.
ListenerAwaits_NoError(st) ==
  CASE st = WaitingForLock -> {LOCKED_APP}
    [] st = WaitingForBiometricSuccess -> {BIOMETRICS_SUCCESS}
    [] st = WaitingForOutcome -> {AUTH_SUCCESS, LOCKED_APP}
    [] OTHER -> {}

\* Variant: the outcome wait is a plain take(AUTH_SUCCESS), not a race.
ListenerAwaits_OnlySuccess(st) ==
  CASE st = WaitingForLock -> {LOCKED_APP}
    [] st = WaitingForBiometricSuccess -> {BIOMETRICS_SUCCESS}
    [] st = WaitingForOutcome -> {AUTH_SUCCESS}
    [] OTHER -> {}

\* Variant: the first take() also accepts BIOMETRICS_SUCCESS.
ListenerAwaits_LockOrBiometrics(st) ==
  CASE st = WaitingForLock -> {LOCKED_APP, BIOMETRICS_SUCCESS}
    [] st = WaitingForBiometricSuccess -> {BIOMETRICS_SUCCESS}
    [] st = WaitingForOutcome -> {AUTH_SUCCESS, LOCKED_APP, AUTH_ERROR}
    [] OTHER -> {}

\* Variant: the outcome take() also lists OUT_APP, so that backgrounding is
\* handled like a re-lock.
ListenerAwaits_OutApp(st) ==
  CASE st = WaitingForLock -> {LOCKED_APP}
    [] st = WaitingForBiometricSuccess -> {BIOMETRICS_SUCCESS}
    [] st = WaitingForOutcome -> {AUTH_SUCCESS, LOCKED_APP, AUTH_ERROR, OUT_APP}
    [] OTHER -> {}

\* The take() pattern a listener is suspended on.
ListenerAwaits(st) ==
  CASE st = WaitingForLock -> {LOCKED_APP}
    [] st = WaitingForBiometricSuccess -> {BIOMETRICS_SUCCESS}
    [] st = WaitingForOutcome -> {AUTH_SUCCESS, LOCKED_APP, AUTH_ERROR}
    [] OTHER -> {}

\* The state in which the listener ends once the outcome wait is resolved.
OutcomeState(sig) ==
  IF sig = AUTH_SUCCESS THEN NavigatedToWallet ELSE NavigatedToLock

\* Variant: the listener body is a loop; after the outcome it takes LOCKED_APP
\* again.
ListenerNext_Loops(st, sig) ==
  CASE st = WaitingForLock -> WaitingForBiometricSuccess
    [] st = WaitingForBiometricSuccess -> WaitingForOutcome
    [] st = WaitingForOutcome -> WaitingForLock
    [] OTHER -> st

\* The wait point (or terminal state) reached when sig resumes the listener.
ListenerNext(st, sig) ==
  CASE st = WaitingForLock -> WaitingForBiometricSuccess
    [] st = WaitingForBiometricSuccess -> WaitingForOutcome
    [] st = WaitingForOutcome -> OutcomeState(sig)
    [] OTHER -> st

\* What the listener issues when AUTH_ERROR resolves the outcome wait.
AuthErrorCommands == <<ReplaceStack(LockScreen)>>

\* Variant: the wallet home is pushed with navigate() instead of replacing
\* the stack.
ListenerCommands_PushHome(st, sig) ==
  CASE st = WaitingForLock -> <<Navigate(LockScreen)>>
    [] st = WaitingForBiometricSuccess -> <<>>
    [] st = WaitingForOutcome ->
         IF sig = AUTH_SUCCESS THEN <<Navigate(WalletHomeRoute)>>
         ELSE IF sig = LOCKED_APP THEN <<ReplaceStack(LockScreen)>>
         ELSE AuthErrorCommands
    [] OTHER -> <<>>

\* Variant: the type of the action that resolved the outcome wait is not
\* examined; the stack is always replaced with the wallet home.
ListenerCommands_AlwaysHome(st, sig) ==
  CASE st = WaitingForLock -> <<Navigate(LockScreen)>>
    [] st = WaitingForBiometricSuccess -> <<>>
    [] st = WaitingForOutcome -> <<ReplaceStack(WalletHomeRoute)>>
    [] OTHER -> <<>>

\* Variant: a re-lock navigates to the lock screen instead of replacing the
\* stack with it.
ListenerCommands_RelockPush(st, sig) ==
  CASE st = WaitingForLock -> <<Navigate(LockScreen)>>
    [] st = WaitingForBiometricSuccess -> <<>>
    [] st = WaitingForOutcome ->
         IF sig = AUTH_SUCCESS THEN <<ReplaceStack(WalletHomeRoute)>>
         ELSE IF sig = LOCKED_APP THEN <<Navigate(LockScreen)>>
         ELSE AuthErrorCommands
    [] OTHER -> <<>>

\* Variant: navigate('LockScreen') is called after take(BIOMETRICS_SUCCESS)
\* instead of after take(LOCKED_APP).
ListenerCommands_NavOnBiometrics(st, sig) ==
  CASE st = WaitingForLock -> <<>>
    [] st = WaitingForBiometricSuccess -> <<Navigate(LockScreen)>>
    [] st = WaitingForOutcome ->
         IF sig = AUTH_SUCCESS THEN <<ReplaceStack(WalletHomeRoute)>>
         ELSE IF sig = LOCKED_APP THEN <<ReplaceStack(LockScreen)>>
         ELSE AuthErrorCommands
    [] OTHER -> <<>>

\* Variant: navigate('LockScreen') is called after both takes.
ListenerCommands_NavAtBoth(st, sig) ==
  CASE st = WaitingForLock -> <<Navigate(LockScreen)>>
    [] st = WaitingForBiometricSuccess -> <<Navigate(LockScreen)>>
    [] st = WaitingForOutcome ->
         IF sig = AUTH_SUCCESS THEN <<ReplaceStack(WalletHomeRoute)>>
         ELSE IF sig = LOCKED_APP THEN <<ReplaceStack(LockScreen)>>
         ELSE AuthErrorCommands
    [] OTHER -> <<>>

\* Variant: the lock screen is shown by replacing the stack.
ListenerCommands_LockReplaces(st, sig) ==
  CASE st = WaitingForLock -> <<ReplaceStack(LockScreen)>>
    [] st = WaitingForBiometricSuccess -> <<>>
    [] st = WaitingForOutcome ->
         IF sig = AUTH_SUCCESS THEN <<ReplaceStack(WalletHomeRoute)>>
         ELSE IF sig = LOCKED_APP THEN <<ReplaceStack(LockScreen)>>
         ELSE AuthErrorCommands
    [] OTHER -> <<>>

\* The navigation commands a listener issues between that take() and the next.
ListenerCommands(st, sig) ==
  CASE st = WaitingForLock -> <<Navigate(LockScreen)>>
    [] st = WaitingForBiometricSuccess -> <<>>
    [] st = WaitingForOutcome ->
         IF sig = AUTH_SUCCESS THEN <<ReplaceStack(WalletHomeRoute)>>
         ELSE IF sig = LOCKED_APP THEN <<ReplaceStack(LockScreen)>>
         ELSE AuthErrorCommands
    [] OTHER -> <<>>

Alive(l) == l.st \in WaitPoints

\* Instances suspended on a take() that sig matches.
Resumed(S, sig) ==
  {i \in 1..Len(S.inst) : sig \in ListenerAwaits(S.inst[i].st)}

\* ------------------------------------------------- authStateMachine
\* Variant: the parent takes IN_APP in every state.
ParentAwaits_ForkAlways(p) == IF p = Idle THEN {IN_APP} ELSE {IN_APP, OUT_APP}

\* The take() pattern the parent is suspended on.
ParentAwaits(p) == IF p = Idle THEN {IN_APP} ELSE {OUT_APP}

\* Variant: the lock observed by the cancelled previous instance is remembered,
\* so the forked instance skips take(LOCKED_APP).
Fork_Leaky(S, at) ==
  LET n == Len(S.inst)
      locked == /\ n > 0
                /\ \E k \in S.inst[n].from..S.inst[n].to : S.bus[k] = LOCKED_APP
      st0 == IF locked THEN WaitingForBiometricSuccess ELSE WaitingForLock
  IN [S EXCEPT !.inst = Append(@, [st |-> st0, from |-> at, to |-> 0]),
               !.handle = n + 1,
               !.parent = Active]

\* Variant: the task returned by fork() is not kept.
Fork_DropsHandle(S, at) ==
  [S EXCEPT !.inst = Append(@, [st |-> WaitingForLock, from |-> at, to |-> 0]),
            !.parent = Active]

\* fork(biometricsListener): a new instance, run up to its first take().
\* from/to delimit its foreground session on the bus (to = 0 while open).
Fork(S, at) ==
  [S EXCEPT !.inst = Append(@, [st |-> WaitingForLock, from |-> at, to |-> 0]),
            !.handle = Len(S.inst) + 1,
            !.parent = Active]

\* Variant: the parent body is not a loop; it returns after the cancel.
AfterCancel_Ends == "Ended"

\* Where the parent continues after cancelling: it loops back to take(IN_APP).
AfterCancel == Idle

\* Variant: the handle is dropped but the task stays among the takers.
Cancel_KeepsTaker(S, at) ==
  [S EXCEPT !.inst = [i \in 1..Len(S.inst) |->
                        IF i = S.handle
                          THEN [S.inst[i] EXCEPT !.to = at]
                          ELSE S.inst[i]],
            !.handle = NoHandle,
            !.parent = AfterCancel]

\* Variant: a task that already ended is marked cancelled as well.
Cancel_MarksEnded(S, at) ==
  [S EXCEPT !.inst = [i \in 1..Len(S.inst) |->
                        IF i = S.handle
                          THEN [S.inst[i] EXCEPT !.st = Cancelled, !.to = at]
                          ELSE S.inst[i]],
            !.handle = NoHandle,
            !.parent = AfterCancel]

\* cancel(task): a task suspended in a take() is removed from the takers and
\* ends; cancelling a task that already ended does nothing.
Cancel(S, at) ==
  [S EXCEPT !.inst = [i \in 1..Len(S.inst) |->
                        IF i = S.handle
                          THEN [S.inst[i] EXCEPT
                                  !.st = IF Alive(S.inst[i]) THEN Cancelled ELSE @,
                                  !.to = at]
                          ELSE S.inst[i]],
            !.handle = NoHandle,
            !.parent = AfterCancel]

\* Variant: IN_APP while Active cancels the running listener and forks anew.
ParentDeliver_Refork(S, sig, at) ==
  IF sig = IN_APP /\ S.parent = Active THEN Fork(Cancel(S, at), at)
  ELSE IF sig \notin ParentAwaits(S.parent) THEN S
  ELSE IF sig = IN_APP THEN Fork(S, at) ELSE Cancel(S, at)

\* The parent resumed by sig: fork on IN_APP, cancel on OUT_APP.
ParentDeliver(S, sig, at) ==
  IF sig \notin ParentAwaits(S.parent) THEN S
  ELSE IF sig = IN_APP THEN Fork(S, at) ELSE Cancel(S, at)

\* The commands cs, recorded as issued by instance i at bus position at.
Issue(cs, i, at) ==
  [k \in 1..Len(cs) |->
     [kind |-> cs[k].kind, route |-> cs[k].route, by |-> i, at |-> at]]

RECURSIVE Concat(_, _, _)
\* The commands of the resumed instances 1..n, in instance order.
Concat(S, sig, n) ==
  IF n = 0 THEN <<>>
  ELSE Concat(S, sig, n - 1) \o
       (IF n \in Resumed(S, sig)
          THEN Issue(ListenerCommands(S.inst[n].st, sig), n, Len(S.bus))
          ELSE <<>>)

ListenerDeliver(S, sig) ==
  [S EXCEPT !.inst = [i \in 1..Len(S.inst) |->
                        IF i \in Resumed(S, sig)
                          THEN [S.inst[i] EXCEPT !.st = ListenerNext(@, sig)]
                          ELSE S.inst[i]],
            !.cmdLog = @ \o Concat(S, sig, Len(S.inst))]

\* ------------------------------------------------- the bus
\* One published signal, fanned out to the sagas whose take() matches it: to
\* the parent and then the listeners, or the other way round.
DeliverIn(S, sig, parentFirst) ==
  LET at == Len(S.bus) + 1
      T == [S EXCEPT !.bus = Append(@, sig)]
  IN IF parentFirst
       THEN ListenerDeliver(ParentDeliver(T, sig, at), sig)
       ELSE ParentDeliver(ListenerDeliver(T, sig), sig, at)

\* The fan-out with the listeners resumed before the parent.
Deliver(S, sig) == DeliverIn(S, sig, FALSE)

\* The resumption orders a dispatch of sig can take: there is an order to
\* choose only when sig resumes some saga.
Orders(S, sig) ==
  IF sig \in ParentAwaits(S.parent) \/ Resumed(S, sig) # {}
    THEN BOOLEAN
    ELSE {FALSE}

\* The signal is published; the order in which the resumed sagas run is not
\* fixed.
Publish(sig) ==
  /\ Len(bus) < MaxBus
  /\ \E parentFirst \in Orders(Current, sig) :
       LET T == DeliverIn(Current, sig, parentFirst)
       IN /\ parent' = T.parent
          /\ handle' = T.handle
          /\ inst' = T.inst
          /\ cmdLog' = T.cmdLog
          /\ bus' = T.bus
          /\ sched' = parentFirst
          /\ UNCHANGED sheet

Init ==
  /\ parent = InitState.parent
  /\ handle = InitState.handle
  /\ inst = InitState.inst
  /\ cmdLog = InitState.cmdLog
  /\ bus = InitState.bus
  /\ sched = FALSE
  /\ sheet = NoSheet

\* authStateMachine resumes from take(IN_APP) and forks the listener.
ParentFork == IN_APP \in ParentAwaits(parent) /\ Publish(IN_APP)

\* authStateMachine resumes from take(OUT_APP) and cancels the listener.
ParentCancel == OUT_APP \in ParentAwaits(parent) /\ Publish(OUT_APP)

\* biometricsListener resumes from take(LOCKED_APP).
ListenerLocked ==
  /\ \E i \in 1..Len(inst) : inst[i].st = WaitingForLock
  /\ \E sig \in ListenerAwaits(WaitingForLock) : Publish(sig)

\* biometricsListener resumes from take(BIOMETRICS_SUCCESS).
ListenerBiometrics ==
  /\ \E i \in 1..Len(inst) : inst[i].st = WaitingForBiometricSuccess
  /\ \E sig \in ListenerAwaits(WaitingForBiometricSuccess) : Publish(sig)

\* biometricsListener resumes from take([AUTH_SUCCESS, LOCKED_APP, AUTH_ERROR]).
ListenerOutcome ==
  /\ \E i \in 1..Len(inst) : inst[i].st = WaitingForOutcome
  /\ \E sig \in ListenerAwaits(WaitingForOutcome) : Publish(sig)

\* A signal no saga is suspended on: it is put on the bus and dropped.
Unobserved ==
  \E sig \in Signals :
    /\ sig \notin ParentAwaits(parent)
    /\ Resumed(Current, sig) = {}
    /\ Publish(sig)

Next ==
  \/ ParentFork
  \/ ParentCancel
  \/ ListenerLocked
  \/ ListenerBiometrics
  \/ ListenerOutcome
  \/ Unobserved

Spec == Init /\ [][Next]_vars

\* ------------------------------------------------- BottomSheetContent
\* Calls still waiting to run of animations that were replaced before they
\* finished.
MaxPending == 1

\* DEFAULT_BOTTOMSHEETCONTENT_SWIPETHRESHOLD_DURATION
SwipeThreshold == 600
\* DEFAULT_BOTTOMSHEETCONTENT_DISMISSTHRESHOLD, as DismissNum / DismissDen
DismissNum == 6
DismissDen == 10

\* useSharedValue(0): the offset at which the sheet is fully visible.
visibleYOffset == 0

\* Window heights and laid-out sheet heights.
Heights == {5, 10}
\* event.translationY of a pan gesture.
Translations == {-10, 0, 4, 7}
\* event.velocityY of a pan gesture.
Velocities == {-601, -1, 600, 601}
\* Callbacks handed to hide() through the ref.
Callbacks == {"callback"}
NoCallback == "undefined"

NoAnimation == [target |-> -1, hides |-> FALSE, by |-> "none"]

\* withTiming(target, config, callback): hides tells whether the callback
\* runs onHidden, by names the function that started the animation.
Timing(target, hides, by) == [target |-> target, hides |-> hides, by |-> by]

Abs(x) == IF x < 0 THEN -x ELSE x

\* The component as rendered for the first time, before its first layout.
InitialSheet(screenHeight, interactable, withOnDismissed) ==
  [sheetHeight |-> screenHeight,
   offset |-> screenHeight,
   anim |-> NoAnimation,
   pending |-> 0,
   startY |-> 0,
   gesture |-> "none",
   postCallback |-> NoCallback,
   isInteractable |-> interactable,
   onDismissed |-> withOnDismissed,
   isMounted |-> FALSE,
   debounce |-> "idle",
   calls |-> <<>>,
   gone |-> FALSE,
   last |-> [op |-> "render"]]

\* onHidden: navigation.goBack(), onDismissed?.(), postCallback.current?.()
onHidden(sh) ==
  [sh EXCEPT !.calls = @ \o <<"goBack">>
                         \o (IF sh.onDismissed THEN <<"onDismissed">> ELSE <<>>)
                         \o (IF sh.postCallback # NoCallback
                               THEN <<sh.postCallback>> ELSE <<>>),
             !.gone = TRUE]

\* Assigning to currentYOffset.value: the running animation is cancelled; its
\* callback still runs, later, with finished = false.
Assign(sh, value, animation) ==
  [sh EXCEPT !.offset = value,
             !.anim = animation,
             !.pending = IF sh.anim.hides THEN @ + 1 ELSE @]

\* hide: animate to sheetHeight, then onHidden.
hide(sh) == Assign(sh, sh.offset, Timing(sh.sheetHeight, TRUE, "hide"))

\* show: jump to the initial height, animate to the visible offset.
show(sh, initialSheetHeight) ==
  Assign(Assign(sh, initialSheetHeight, NoAnimation),
         initialSheetHeight, Timing(visibleYOffset, FALSE, "show"))

\* Variant: the direction of the swipe is tested without Math.abs, so a quick
\* upward swipe is not recognised as a quick swipe.
finalOffset_NoAbs(sheetHeight, startY, translationY, velocityY) ==
  LET latestOffset == startY + translationY
      hasReachedDismissOffset ==
        latestOffset * DismissDen > sheetHeight * DismissNum
      hasReachedSwipeThreshold == velocityY > SwipeThreshold
      isDismissing == velocityY > 0
  IN IF hasReachedSwipeThreshold
       THEN (IF isDismissing THEN sheetHeight ELSE visibleYOffset)
       ELSE IF hasReachedDismissOffset THEN sheetHeight ELSE visibleYOffset

\* gestureHandler.onEnd: the offset the sheet is animated to.
finalOffset(sheetHeight, startY, translationY, velocityY) ==
  LET latestOffset == startY + translationY
      hasReachedDismissOffset ==
        latestOffset * DismissDen > sheetHeight * DismissNum
      hasReachedSwipeThreshold == Abs(velocityY) > SwipeThreshold
      isDismissing == velocityY > 0
  IN IF hasReachedSwipeThreshold
       THEN (IF isDismissing THEN sheetHeight ELSE visibleYOffset)
       ELSE IF hasReachedDismissOffset THEN sheetHeight ELSE visibleYOffset

\* Variant: the back handler hides the sheet whatever isInteractable is.
backPressHides_Always(interactable) == TRUE

\* hardwareBackPress: isInteractable && hide()
backPressHides(interactable) == interactable

\* Variant: the pan gesture handler is always enabled.
panEnabled_Always(interactable) == TRUE

\* <PanGestureHandler enabled={isInteractable}>
panEnabled(interactable) == interactable

\* The values currentYOffset can have while it moves from a to b.
Between(a, b) == IF a <= b THEN a..b ELSE b..a

Live == ~sheet.gone

\* updateSheetHeight (onLayout): the height is stored; the first layout shows
\* the sheet.
UpdateSheetHeight ==
  /\ Live
  /\ \E height \in Heights :
       LET sh == [sheet EXCEPT !.sheetHeight = height,
                               !.last = [op |-> "updateSheetHeight"]]
       IN sheet' = IF sheet.isMounted THEN sh
                   ELSE show([sh EXCEPT !.isMounted = TRUE], height)
  /\ sheet'.pending <= MaxPending
  /\ UNCHANGED <<parent, handle, inst, cmdLog, bus, sched>>

\* gestureHandler.onStart: ctx.startY = currentYOffset.value
GestureStart ==
  /\ Live
  /\ sheet.isMounted
  /\ panEnabled(sheet.isInteractable)
  /\ sheet.gesture = "none"
  /\ \E y \in (IF sheet.anim = NoAnimation THEN {sheet.offset}
               ELSE Between(sheet.offset, sheet.anim.target)) :
       sheet' = [sheet EXCEPT !.startY = y, !.gesture = "active",
                              !.last = [op |-> "onStart"]]
  /\ UNCHANGED <<parent, handle, inst, cmdLog, bus, sched>>

\* gestureHandler.onActive: follow the finger, clamped to the sheet.
GestureActive ==
  /\ Live
  /\ panEnabled(sheet.isInteractable)
  /\ sheet.gesture = "active"
  /\ \E translationY \in Translations :
       LET y == sheet.startY + translationY
           hi == IF y >= sheet.sheetHeight THEN sheet.sheetHeight ELSE y
           v == IF hi <= visibleYOffset THEN visibleYOffset ELSE hi
       IN sheet' = [Assign(sheet, v, NoAnimation) EXCEPT
                      !.last = [op |-> "onActive"]]
  /\ sheet'.pending <= MaxPending
  /\ UNCHANGED <<parent, handle, inst, cmdLog, bus, sched>>

\* gestureHandler.onEnd: pick the final offset and animate to it; the callback
\* runs onHidden when the final offset is the sheet height.
GestureEnd ==
  /\ Live
  /\ panEnabled(sheet.isInteractable)
  /\ sheet.gesture = "active"
  /\ \E translationY \in Translations, velocityY \in Velocities :
       LET target == finalOffset(sheet.sheetHeight, sheet.startY,
                                 translationY, velocityY)
           isDismissed == target = sheet.sheetHeight
       IN sheet' = [Assign(sheet, sheet.offset, Timing(target, isDismissed, "onEnd"))
                      EXCEPT !.gesture = "none",
                             !.last = [op |-> "onEnd",
                                       translationY |-> translationY,
                                       velocityY |-> velocityY]]
  /\ sheet'.pending <= MaxPending
  /\ UNCHANGED <<parent, handle, inst, cmdLog, bus, sched>>

\* The gesture is cancelled or fails: no handler is defined for that.
GestureCancel ==
  /\ Live
  /\ sheet.gesture = "active"
  /\ sheet' = [sheet EXCEPT !.gesture = "none", !.last = [op |-> "onCancel"]]
  /\ UNCHANGED <<parent, handle, inst, cmdLog, bus, sched>>

\* The running animation reaches its target and its callback runs.
AnimationFinished ==
  /\ sheet.anim # NoAnimation
  /\ LET sh == [sheet EXCEPT !.offset = sheet.anim.target,
                             !.anim = NoAnimation,
                             !.last = [op |-> "finished", hides |-> sheet.anim.hides,
                                       by |-> sheet.anim.by]]
     IN sheet' = IF sheet.anim.hides THEN onHidden(sh) ELSE sh
  /\ UNCHANGED <<parent, handle, inst, cmdLog, bus, sched>>

\* The callback of a replaced animation runs (finished = false is ignored).
AnimationCancelled ==
  /\ sheet.pending > 0
  /\ sheet' = onHidden([sheet EXCEPT !.pending = @ - 1,
                                     !.last = [op |-> "cancelled", hides |-> TRUE]])
  /\ UNCHANGED <<parent, handle, inst, cmdLog, bus, sched>>

\* BackHandler 'hardwareBackPress': hide when interactable, always return true.
HardwareBackPress ==
  /\ Live
  /\ LET sh == [sheet EXCEPT !.last = [op |-> "hardwareBackPress", ret |-> TRUE]]
     IN sheet' = IF backPressHides(sheet.isInteractable) THEN hide(sh) ELSE sh
  /\ sheet'.pending <= MaxPending
  /\ UNCHANGED <<parent, handle, inst, cmdLog, bus, sched>>

\* ref.hide(callback): store the callback, call the debounced hide
\* (debounce(hide, 2000, { leading: true })).
RefHide ==
  /\ Live
  /\ \E callback \in Callbacks \cup {NoCallback} :
       LET sh == [sheet EXCEPT !.postCallback = callback,
                               !.last = [op |-> "ref.hide"]]
       IN sheet' = IF sheet.debounce = "idle"
                     THEN hide([sh EXCEPT !.debounce = "leading"])
                     ELSE [sh EXCEPT !.debounce = "trailing"]
  /\ sheet'.pending <= MaxPending
  /\ UNCHANGED <<parent, handle, inst, cmdLog, bus, sched>>

\* The debounce wait elapses: a call made during the wait is carried out.
DebounceTimer ==
  /\ Live
  /\ sheet.debounce # "idle"
  /\ LET sh == [sheet EXCEPT !.debounce = "idle", !.last = [op |-> "debounce"]]
     IN sheet' = IF sheet.debounce = "trailing" THEN hide(sh) ELSE sh
  /\ sheet'.pending <= MaxPending
  /\ UNCHANGED <<parent, handle, inst, cmdLog, bus, sched>>

\* The children change: debouncedHide.cancel()
ChildrenChanged ==
  /\ Live
  /\ sheet' = [sheet EXCEPT !.debounce = "idle", !.last = [op |-> "children"]]
  /\ UNCHANGED <<parent, handle, inst, cmdLog, bus, sched>>

\* The isInteractable prop changes; a gesture in progress on a handler that
\* becomes disabled is cancelled.
SetInteractable ==
  /\ Live
  /\ sheet' = [sheet EXCEPT !.isInteractable = ~@,
                            !.gesture = IF sheet.isInteractable THEN "none" ELSE @,
                            !.last = [op |-> "props"]]
  /\ UNCHANGED <<parent, handle, inst, cmdLog, bus, sched>>

SheetInit ==
  /\ parent = InitState.parent
  /\ handle = InitState.handle
  /\ inst = InitState.inst
  /\ cmdLog = InitState.cmdLog
  /\ bus = InitState.bus
  /\ sched = FALSE
  /\ \E screenHeight \in Heights, interactable, withOnDismissed \in BOOLEAN :
       sheet = InitialSheet(screenHeight, interactable, withOnDismissed)

SheetNext ==
  \/ UpdateSheetHeight
  \/ GestureStart
  \/ GestureActive
  \/ GestureEnd
  \/ GestureCancel
  \/ AnimationFinished
  \/ AnimationCancelled
  \/ HardwareBackPress
  \/ RefHide
  \/ DebounceTimer
  \/ ChildrenChanged
  \/ SetInteractable

SheetSpec == SheetInit /\ [][SheetNext]_vars

\* ------------------------------------------------- observations of a run
\* The state reached from the initial state by publishing b, signal by signal.
RECURSIVE Run(_)
Run(b) ==
  IF Len(b) = 0 THEN InitState
  ELSE Deliver(Run(SubSeq(b, 1, Len(b) - 1)), b[Len(b)])

Instances == 1..Len(inst)

\* Kind and route of each command of a log, without the bookkeeping fields.
Shape(log) == [k \in 1..Len(log) |-> [kind |-> log[k].kind, route |-> log[k].route]]

\* The commands instance i has issued, in order.
IssuedIn(log, i) == SelectSeq(log, LAMBDA c : c.by = i)
IssuedBy(i) == Shape(IssuedIn(cmdLog, i))

\* Last bus position of the foreground session of instance i.
SessionEnd(i) == IF inst[i].to = 0 THEN Len(bus) ELSE inst[i].to

\* The signals of the foreground session of instance i: from the IN_APP that
\* forked it up to the OUT_APP that ended it (or up to now).
SessionBus(i) == SubSeq(bus, inst[i].from, SessionEnd(i))

\* The commands issued, by anyone, during the foreground session of instance i.
SessionCommands(i) ==
  Shape(SelectSeq(cmdLog, LAMBDA c : c.at >= inst[i].from /\ c.at <= SessionEnd(i)))

HasPrefix(s, p) == Len(s) >= Len(p) /\ SubSeq(s, 1, Len(p)) = p

IsPrefix(p, s) == HasPrefix(s, p)

\* ------------------------------------------------- claims

\* C1: a foreground session whose bus starts AppForegrounded, LockEngaged,
\* BiometricSucceeded, AuthSucceeded has issued exactly Navigate("LockScreen")
\* followed by ReplaceStack(WalletHomeRoute), and nothing else, whatever is
\* published afterwards.
C1_UnlockSequence ==
  \A i \in Instances :
    HasPrefix(SessionBus(i), <<IN_APP, LOCKED_APP, BIOMETRICS_SUCCESS, AUTH_SUCCESS>>)
      => /\ SessionCommands(i) = <<Navigate(LockScreen), ReplaceStack(WalletHomeRoute)>>
         /\ IssuedBy(i) = SessionCommands(i)

C1_Witness ==
  \E i \in Instances :
    /\ HasPrefix(SessionBus(i), <<IN_APP, LOCKED_APP, BIOMETRICS_SUCCESS, AUTH_SUCCESS>>)
    /\ inst[i].st = NavigatedToWallet
    /\ Len(cmdLog) = 2

\* C2: an instance has issued ReplaceStack(WalletHomeRoute) only if its own
\* foreground session saw LockEngaged, later BiometricSucceeded, later
\* AuthSucceeded, with none of AuthSucceeded, LockEngaged, AuthErrored between
\* the last two.
C2_WalletOnlyAfterAuth ==
  \A c \in 1..Len(cmdLog) :
    cmdLog[c].route = WalletHomeRoute
      => LET i == cmdLog[c].by
         IN /\ cmdLog[c].kind = "ReplaceStack"
            /\ i \in Instances
            /\ \E l, b, a \in inst[i].from..SessionEnd(i) :
                 /\ l < b /\ b < a
                 /\ bus[l] = LOCKED_APP
                 /\ bus[b] = BIOMETRICS_SUCCESS
                 /\ bus[a] = AUTH_SUCCESS
                 /\ a = cmdLog[c].at
                 /\ \A k \in (b + 1)..(a - 1) :
                      bus[k] \notin {AUTH_SUCCESS, LOCKED_APP, AUTH_ERROR}

C2_Witness ==
  \E c \in 1..Len(cmdLog) :
    /\ cmdLog[c] = [kind |-> "ReplaceStack", route |-> WalletHomeRoute,
                    by |-> cmdLog[c].by, at |-> cmdLog[c].at]
    /\ \E k \in 1..Len(bus) : bus[k] = AUTH_ERROR

\* C3: once AppBackgrounded has been observed while an instance was suspended
\* at a wait point, that instance is cancelled and issues no command in any
\* later step, and the command log only grows.
C3_CancelledIssuesNothing ==
  [][\A i \in Instances :
       (\/ inst[i].st = Cancelled
        \/ Alive(inst[i]) /\ parent = Active /\ bus' = Append(bus, OUT_APP))
       => /\ inst'[i].st = Cancelled
          /\ IssuedIn(cmdLog', i) = IssuedIn(cmdLog, i)
          /\ IsPrefix(cmdLog, cmdLog')]_vars

C3_Witness ==
  \E i \in Instances :
    /\ inst[i].st = Cancelled
    /\ IssuedBy(i) = <<Navigate(LockScreen)>>
    /\ \E k \in (inst[i].to + 1)..Len(bus) : bus[k] = AUTH_SUCCESS
    /\ \E k \in inst[i].from..inst[i].to : bus[k] = BIOMETRICS_SUCCESS

\* C4: at most one listener instance is alive, and an alive instance is the
\* one whose handle the parent retains.
C4_AtMostOneAlive ==
  /\ Cardinality({i \in Instances : Alive(inst[i])}) <= 1
  /\ \A i \in Instances : Alive(inst[i]) => handle = i /\ parent = Active

C4_Witness ==
  /\ Len(inst) >= 2
  /\ Alive(inst[Len(inst)])
  /\ \E k \in 2..Len(bus) : bus[k] = IN_APP /\ bus[k - 1] = IN_APP

\* C5: a foreground session whose bus starts AppForegrounded, LockEngaged,
\* BiometricSucceeded, LockEngaged has issued Navigate("LockScreen") then
\* ReplaceStack("LockScreen") and its listener is in NavigatedToLock.
C5_RelockSequence ==
  \A i \in Instances :
    HasPrefix(SessionBus(i), <<IN_APP, LOCKED_APP, BIOMETRICS_SUCCESS, LOCKED_APP>>)
      => /\ SessionCommands(i) = <<Navigate(LockScreen), ReplaceStack(LockScreen)>>
         /\ IssuedBy(i) = SessionCommands(i)
         /\ inst[i].st = NavigatedToLock

C5_Witness ==
  \E i \in Instances :
    /\ HasPrefix(SessionBus(i), <<IN_APP, LOCKED_APP, BIOMETRICS_SUCCESS, LOCKED_APP>>)
    /\ Len(SessionBus(i)) > 4

\* The bus with the signal at position k replaced by sig.
Swap(b, k, sig) == [b EXCEPT ![k] = sig]

\* Position k holds the signal that resolved an outcome wait.
WinsAt(k) ==
  LET before == Run(SubSeq(bus, 1, k - 1))
  IN \E i \in 1..Len(before.inst) : before.inst[i].st = WaitingForOutcome

Other(sig) == IF sig = LOCKED_APP THEN AUTH_ERROR ELSE LOCKED_APP

\* C6: wherever LockEngaged or AuthErrored resolved the outcome wait, the
\* instance issued Navigate("LockScreen") then ReplaceStack("LockScreen") and
\* ended in NavigatedToLock, and the run with that signal replaced by the
\* other of the two has the same command log and the same instance states.
C6_ErrorSameAsRelock ==
  \A k \in 1..Len(bus) :
    bus[k] \in {LOCKED_APP, AUTH_ERROR} /\ WinsAt(k)
      => LET alt == Run(Swap(bus, k, Other(bus[k])))
         IN /\ alt.cmdLog = cmdLog
            /\ alt.inst = inst
            /\ alt.parent = parent
            /\ alt.handle = handle
            /\ \E i \in Instances :
                 /\ inst[i].from < k /\ k <= SessionEnd(i)
                 /\ inst[i].st = NavigatedToLock
                 /\ IssuedBy(i) = <<Navigate(LockScreen), ReplaceStack(LockScreen)>>

C6_Witness ==
  \E k \in 1..Len(bus) :
    /\ bus[k] = AUTH_ERROR
    /\ WinsAt(k)
    /\ \E j \in (k + 1)..Len(bus) : bus[j] = BIOMETRICS_SUCCESS

\* C7: an instance that has just been forked is in WaitingForLock and has
\* issued nothing, whatever the previous instance did; after
\* [AppForegrounded, LockEngaged, BiometricSucceeded, AppBackgrounded,
\* AppForegrounded, AuthSucceeded] no ReplaceStack has been issued; after
\* [AppForegrounded, AppBackgrounded, AppForegrounded, LockEngaged,
\* BiometricSucceeded, AuthSucceeded] the first session has issued nothing and
\* the second Navigate("LockScreen") then ReplaceStack(WalletHomeRoute).
C7_FreshListener ==
  /\ \A i \in Instances :
       inst[i].from = Len(bus)
         => inst[i].st = WaitingForLock /\ IssuedBy(i) = <<>> /\ handle = i
  /\ bus = <<IN_APP, LOCKED_APP, BIOMETRICS_SUCCESS, OUT_APP, IN_APP, AUTH_SUCCESS>>
       => /\ \A c \in 1..Len(cmdLog) : cmdLog[c].kind # "ReplaceStack"
          /\ inst[2].st = WaitingForLock
  /\ bus = <<IN_APP, OUT_APP, IN_APP, LOCKED_APP, BIOMETRICS_SUCCESS, AUTH_SUCCESS>>
       => /\ SessionCommands(1) = <<>>
          /\ SessionCommands(2) = <<Navigate(LockScreen), ReplaceStack(WalletHomeRoute)>>
          /\ IssuedBy(2) = SessionCommands(2)

C7_Witness ==
  /\ bus = <<IN_APP, LOCKED_APP, BIOMETRICS_SUCCESS, OUT_APP, IN_APP>>
  /\ inst[1].st = Cancelled
  /\ inst[2].from = 5

\* C8: AppForegrounded published while the parent is Active changes neither
\* the instances, nor the retained handle, nor the parent, nor the command log.
C8_ForegroundWhileActive ==
  [][parent = Active /\ bus' = Append(bus, IN_APP)
       => UNCHANGED <<parent, handle, inst, cmdLog>>]_vars

C8_Witness ==
  \E k \in 2..Len(bus) :
    /\ bus[k] = IN_APP
    /\ Run(SubSeq(bus, 1, k - 1)).parent = Active
    /\ Len(inst) = 1
    /\ inst[1].st = WaitingForOutcome

\* C9: an instance suspended awaiting BiometricSucceeded has issued exactly
\* Navigate("LockScreen").
C9_LockScreenBeforeBiometrics ==
  \A i \in Instances :
    inst[i].st = WaitingForBiometricSuccess
      => IssuedBy(i) = <<Navigate(LockScreen)>>

C9_Witness ==
  \E i \in Instances :
    /\ inst[i].st = WaitingForBiometricSuccess
    /\ SessionBus(i) = <<IN_APP, LOCKED_APP>>

\* C10 as stated: an instance in WaitingForLock or suspended in
\* WaitingForBiometricSuccess has issued no navigation command.
C10_NoCommandBeforeBiometrics ==
  \A i \in Instances :
    inst[i].st \in {WaitingForLock, WaitingForBiometricSuccess}
      => IssuedBy(i) = <<>>

\* The session of instance i saw LockEngaged.
SawLock(i) == \E k \in inst[i].from..SessionEnd(i) : bus[k] = LOCKED_APP

\* C10 amended: an instance in WaitingForLock has issued no command;
\* Navigate("LockScreen") is issued on receipt of LockEngaged in WaitingForLock
\* and receipt of BiometricSucceeded issues nothing, so an instance in
\* WaitingForOutcome has issued exactly one Navigate; a session cancelled
\* before LockEngaged has issued no command.
C10_NavigateOnLock ==
  \A i \in Instances :
    /\ inst[i].st = WaitingForLock => IssuedBy(i) = <<>>
    /\ inst[i].st = WaitingForOutcome => IssuedBy(i) = <<Navigate(LockScreen)>>
    /\ inst[i].st = Cancelled /\ ~SawLock(i) => SessionCommands(i) = <<>>
    /\ inst[i].st = Cancelled /\ SawLock(i)
         => SessionCommands(i) = <<Navigate(LockScreen)>>

C10_Witness ==
  /\ \E i \in Instances :
       /\ inst[i].st = Cancelled /\ ~SawLock(i)
       /\ \E k \in inst[i].from..inst[i].to : bus[k] = BIOMETRICS_SUCCESS
  /\ \E j \in Instances : inst[j].st = WaitingForOutcome

\* Least position in lo..hi of the bus holding a signal of set, 0 if none.
FirstIn(set, lo, hi) ==
  LET ks == {k \in lo..hi : bus[k] \in set}
  IN IF ks = {} THEN 0 ELSE CHOOSE k \in ks : \A j \in ks : k <= j

\* Last position of the session of instance i at which it can still be resumed:
\* the position before the OUT_APP that ended the session.
LastLive(i) == IF inst[i].to = 0 THEN Len(bus) ELSE inst[i].to - 1

\* Position at which instance i entered the outcome wait, 0 if it did not:
\* the first BiometricSucceeded after the first LockEngaged of its session.
EnteredOutcome(i) ==
  LET l == FirstIn({LOCKED_APP}, inst[i].from, LastLive(i))
  IN IF l = 0 THEN 0 ELSE FirstIn({BIOMETRICS_SUCCESS}, l + 1, LastLive(i))

\* Position of the signal that resolved the outcome wait of instance i, 0 if
\* none has.
Winner(i) ==
  IF EnteredOutcome(i) = 0 THEN 0
  ELSE FirstIn({AUTH_SUCCESS, LOCKED_APP, AUTH_ERROR},
               EnteredOutcome(i) + 1, LastLive(i))

Replaces(log) == SelectSeq(log, LAMBDA c : c.kind = "ReplaceStack")

Navigates(log) == SelectSeq(log, LAMBDA c : c.kind = "Navigate")

\* C11: the outcome wait of an instance is resolved by the first AuthSucceeded,
\* LockEngaged or AuthErrored published after it entered the wait; the instance
\* has issued exactly one ReplaceStack, at that position and with the route
\* that signal selects, whatever was published later; until then it has issued
\* none.
C11_FirstOutcomeWins ==
  \A i \in Instances :
    LET w == Winner(i)
        rs == Replaces(IssuedIn(cmdLog, i))
    IN IF w = 0 THEN rs = <<>>
       ELSE /\ Len(rs) = 1
            /\ rs[1].at = w
            /\ rs[1].route = IF bus[w] = AUTH_SUCCESS THEN WalletHomeRoute
                             ELSE LockScreen

C11_Witness ==
  \E i \in Instances :
    /\ Winner(i) # 0
    /\ bus[Winner(i)] = LOCKED_APP
    /\ \E k \in (Winner(i) + 1)..LastLive(i) : bus[k] = AUTH_SUCCESS

AwaitedIn(p, st) ==
  (IF p = Idle THEN {IN_APP} ELSE {OUT_APP})
    \cup (CASE st = WaitingForLock -> {LOCKED_APP}
            [] st = WaitingForBiometricSuccess -> {BIOMETRICS_SUCCESS}
            [] st = WaitingForOutcome -> {AUTH_SUCCESS, LOCKED_APP, AUTH_ERROR}
            [] OTHER -> {})

\* The state of the listener the parent retains, "none" without one.
Running == IF handle = NoHandle THEN "none" ELSE inst[handle].st

\* C13: a signal published while neither process awaits its kind changes no
\* process state and not the command log, and does not count for a later wait:
\* after [AppForegrounded, AuthSucceeded, LockEngaged, BiometricSucceeded] the
\* listener is still in WaitingForOutcome, after [AppForegrounded,
\* BiometricSucceeded, LockEngaged] it is in WaitingForBiometricSuccess.
C13_Unobserved ==
  [][/\ \A sig \in Signals :
          bus' = Append(bus, sig) /\ sig \notin AwaitedIn(parent, Running)
            => UNCHANGED <<parent, handle, inst, cmdLog>>
     /\ bus' = <<IN_APP, AUTH_SUCCESS, LOCKED_APP, BIOMETRICS_SUCCESS>>
          => inst'[1].st = WaitingForOutcome /\ Len(cmdLog') = 1
     /\ bus' = <<IN_APP, BIOMETRICS_SUCCESS, LOCKED_APP>>
          => inst'[1].st = WaitingForBiometricSuccess]_vars

C13_Witness ==
  /\ HasPrefix(bus, <<IN_APP, AUTH_SUCCESS, LOCKED_APP, BIOMETRICS_SUCCESS>>)
  /\ Len(bus) > 4

\* Number of cancels the parent has issued: the sessions that were ended.
Cancels == Cardinality({i \in Instances : inst[i].to # 0})

C14_Inv ==
  /\ parent = Idle => handle = NoHandle /\ \A i \in Instances : ~Alive(inst[i])
  /\ Cancels = IF parent = Idle THEN Len(inst) ELSE Len(inst) - 1

C14_Step ==
  /\ Len(inst') # Len(inst)
       => parent = Idle /\ bus' = Append(bus, IN_APP) /\ Len(inst') = Len(inst) + 1
  /\ (\E i \in Instances : inst[i].to = 0 /\ inst'[i].to # 0)
       => parent = Active /\ bus' = Append(bus, OUT_APP)

\* C14: while the parent is Idle no listener is alive and no handle is
\* retained; an instance is forked only by AppForegrounded observed in Idle and
\* a session is ended only by AppBackgrounded observed in Active, so the cancels
\* number as many as the forks in Idle and one less in Active.
C14_ListenerOnlyWhileActive == []C14_Inv /\ [][C14_Step]_vars

C14_Witness ==
  /\ parent = Idle
  /\ Len(inst) = 2
  /\ inst[1].st = Cancelled
  /\ inst[2].st = Cancelled
  /\ bus[Len(bus)] = LOCKED_APP

\* C15: AppBackgrounded observed after the retained listener reached a terminal
\* state issues no command and changes no instance state, and the parent
\* returns to Idle without a handle; the next AppForegrounded forks a fresh
\* listener in WaitingForLock.
C15_CancelAfterEnd ==
  [][/\ (/\ parent = Active
         /\ handle # NoHandle
         /\ inst[handle].st \in Terminal
         /\ bus' = Append(bus, OUT_APP))
          => /\ cmdLog' = cmdLog
             /\ parent' = Idle
             /\ handle' = NoHandle
             /\ \A i \in Instances : inst'[i].st = inst[i].st
     /\ (/\ parent = Idle
         /\ Len(inst) > 0
         /\ inst[Len(inst)].st \in Terminal
         /\ bus' = Append(bus, IN_APP))
          => /\ Len(inst') = Len(inst) + 1
             /\ inst'[Len(inst')].st = WaitingForLock
             /\ handle' = Len(inst')
             /\ cmdLog' = cmdLog]_vars

C15_Witness ==
  /\ Len(inst) = 2
  /\ inst[1].st \in Terminal
  /\ inst[1].to # 0
  /\ inst[2].st = WaitingForLock

C16_Inv ==
  /\ parent \in {Idle, Active}
  /\ parent = Idle => ParentAwaits(parent) = {IN_APP}
  /\ parent = Active => ParentAwaits(parent) = {OUT_APP}
  /\ Len(bus) < MaxBus => ENABLED (ParentFork \/ ParentCancel)

C16_Step ==
  parent = Idle /\ bus' = Append(bus, IN_APP)
    => /\ parent' = Active
       /\ handle' = Len(inst) + 1
       /\ Len(inst') = Len(inst) + 1
       /\ inst'[handle'].st = WaitingForLock

\* C16: the parent is always either Idle awaiting AppForegrounded or Active
\* awaiting AppBackgrounded, and one of the two can always be delivered; every
\* AppForegrounded observed in Idle leaves a running listener in
\* WaitingForLock, in the same step, after any number of cycles.
C16_ParentNeverEnds == []C16_Inv /\ [][C16_Step]_vars

C16_Witness ==
  /\ Len(inst) = 3
  /\ inst[3].st = WaitingForLock
  /\ parent = Active

\* C17: the command log, the instances and the parent are a function of the
\* published sequence alone: whatever order the resumed sagas ran in at each
\* signal, they equal the result of replaying the bus in one fixed order.
C17_ScheduleIndependent ==
  LET R == Run(bus)
  IN /\ cmdLog = R.cmdLog
     /\ inst = R.inst
     /\ parent = R.parent
     /\ handle = R.handle

C17_Witness ==
  /\ sched = TRUE
  /\ bus[Len(bus)] = OUT_APP
  /\ \E i \in Instances :
       /\ inst[i].to = Len(bus)
       /\ inst[i].st = Cancelled
       /\ EnteredOutcome(i) # 0
  /\ cmdLog # <<>>

\* C18: the commands of an instance are a prefix of Navigate("LockScreen"),
\* ReplaceStack(X) with X the wallet home route or "LockScreen", and every
\* Navigate in the log has the route "LockScreen".
C18_CommandShape ==
  /\ \A i \in Instances :
       \E x \in {WalletHomeRoute, LockScreen} :
         IsPrefix(IssuedBy(i), <<Navigate(LockScreen), ReplaceStack(x)>>)
  /\ \A c \in 1..Len(cmdLog) :
       cmdLog[c].kind = "Navigate" => cmdLog[c].route = LockScreen

C18_Witness ==
  /\ Len(inst) = 2
  /\ IssuedBy(1) = <<Navigate(LockScreen), ReplaceStack(LockScreen)>>
  /\ IssuedBy(2) = <<>>

\* The calls onHidden makes, in order, for the props and the stored callback
\* of sh.
HiddenCalls(sh) ==
  <<"goBack">> \o (IF sh.onDismissed THEN <<"onDismissed">> ELSE <<>>)
               \o (IF sh.postCallback # NoCallback THEN <<sh.postCallback>> ELSE <<>>)

\* Whether a pan gesture that ends dismisses the sheet: a quick swipe by its
\* direction, otherwise by the position reached.
Dismisses(sheetHeight, startY, translationY, velocityY) ==
  IF Abs(velocityY) > SwipeThreshold
    THEN velocityY > 0
    ELSE (startY + translationY) * DismissDen > sheetHeight * DismissNum

\* C19: when a pan gesture ends, the sheet is animated to sheetHeight if the
\* gesture dismisses (quick swipe: exactly when velocityY > 0; otherwise
\* exactly when startY + translationY exceeds sheetHeight times the dismiss
\* threshold) and to the visible offset if not; the callback of that animation
\* runs onHidden exactly when the target is sheetHeight, and onHidden calls
\* navigation.goBack, onDismissed and the stored callback in that order.
C19_GestureEndTarget ==
  [][/\ sheet.gesture = "active" /\ sheet'.last.op = "onEnd"
          => LET e == sheet'.last
                 d == Dismisses(sheet.sheetHeight, sheet.startY,
                                e.translationY, e.velocityY)
             IN /\ sheet'.anim.by = "onEnd"
                /\ sheet'.anim.target = IF d THEN sheet.sheetHeight ELSE visibleYOffset
                /\ sheet'.anim.hides = (sheet'.anim.target = sheet.sheetHeight)
                /\ sheet'.calls = sheet.calls
     /\ sheet.anim.by = "onEnd" /\ sheet'.last.op = "finished"
          => sheet'.calls = sheet.calls \o
                              (IF sheet.anim.hides THEN HiddenCalls(sheet) ELSE <<>>)
     /\ sheet.anim.by = "onEnd" /\ sheet'.anim # sheet.anim
                                /\ sheet'.last.op # "finished"
          => /\ sheet'.pending = sheet.pending + (IF sheet.anim.hides THEN 1 ELSE 0)
             /\ sheet'.calls = sheet.calls
     /\ sheet'.last.op = "cancelled"
          => sheet'.calls = sheet.calls \o HiddenCalls(sheet)]_vars

C19_Witness ==
  /\ sheet.last = [op |-> "finished", hides |-> TRUE, by |-> "onEnd"]
  /\ sheet.calls = <<"goBack", "onDismissed", "callback">>

====
